---- MODULE Spec2Model ----
(***************************************************************************)
(* auto_areas: the aggregate Trackers (AutoEntity and its sensor and       *)
(* binary-sensor subclasses) of one area, the calculation library, and the *)
(* entity-registry sweep of the area, together with the part of the host   *)
(* they read: the entity registry, the state machine and its events.       *)
(***************************************************************************)
EXTENDS Integers, Sequences, FiniteSets, TLC

(***************************************************************************)
(* Bounds of the model.                                                    *)
(***************************************************************************)
\* The longest list of states handed to a calculation on its own.
MaxLen == 3

\* Entities the host knows: entity ids are 1..NumEntities, in the order of
\* their names ("sensor.e1" < "sensor.e2" < ...).
NumEntities == 2

\* The host events (state changes, registry changes, the stop of the host)
\* of one behaviour.
MaxEvents == 2

Entities == 1..NumEntities

(***************************************************************************)
(* Host constants.                                                         *)
(***************************************************************************)
STATE_UNKNOWN == "unknown"
STATE_UNAVAILABLE == "unavailable"

\* hass.states.get(entity_id) is None / event.data["new_state"] is None.
NoState == "<none>"

\* The state strings an entity takes: the two markers, two strings that
\* float() parses and that are boolean tokens too, and one that is neither.
StateValues == {STATE_UNKNOWN, STATE_UNAVAILABLE, "1", "0", "abc"}

\* The area of the config entry, and some other area of the host.
ThisArea == "area_a"
OtherArea == "area_b"
Areas == {ThisArea, OtherArea}

\* The Trackers of the area, by device class, in the order the platforms
\* construct them (auto_area.auto_entities keeps insertion order).
TEMPERATURE == "temperature"
OCCUPANCY == "occupancy"
ILLUMINANCE == "illuminance"
HUMIDITY == "humidity"
TrackerOrder == <<OCCUPANCY, TEMPERATURE>>
Trackers == {TrackerOrder[i] : i \in 1..Len(TrackerOrder)}
PRESENCE_BINARY_SENSOR_DEVICE_CLASSES == {"motion", OCCUPANCY, "presence"}

\* The registry's device classes of the entities: entity 1 is a temperature
\* sensor, entity 2 an occupancy sensor whose device class the user has
\* overridden to temperature, every further entity alternates between the two.
NoClass == "<none>"
original_device_class(e) ==
    IF e % 2 = 1 THEN TEMPERATURE ELSE OCCUPANCY
device_class(e) ==
    IF e = 2 THEN TEMPERATURE ELSE NoClass

\* The registry entry of entity e in area area_id, enabled, as far as the
\* area reads it.
RegistryEntry(e, area_id) ==
    [entity_id |-> e, area_id |-> area_id, disabled |-> FALSE,
     device_class |-> device_class(e),
     original_device_class |-> original_device_class(e)]

(***************************************************************************)
(* Values: what a calculation returns and what a Tracker publishes.  One   *)
(* record shape for None, strings, floats (as reduced fractions n/d) and   *)
(* booleans.                                                               *)
(***************************************************************************)
RECURSIVE GCD(_, _)
GCD(a, b) == IF b = 0 THEN a ELSE GCD(b, a % b)

NoneV == [kind |-> "none", s |-> "", n |-> 0, d |-> 1]
StrV(x) == [kind |-> "str", s |-> x, n |-> 0, d |-> 1]
BoolV(b) == [kind |-> "bool", s |-> "", n |-> IF b THEN 1 ELSE 0, d |-> 1]
NumV(a, b) ==
    LET g == GCD(a, b)
    IN [kind |-> "num", s |-> "", n |-> a \div g, d |-> b \div g]

(***************************************************************************)
(* calculations.py                                                         *)
(***************************************************************************)
CALCULATE_MAX == "max"
CALCULATE_MIN == "min"
CALCULATE_MEAN == "mean"
CALCULATE_MEDIAN == "median"
CALCULATE_LAST == "last"
CALCULATE_ALL == "all"
CALCULATE_ONE == "one"
CALCULATE_NONE == "none"

\* A state that is the native boolean True or False, not a string.
NativeTrue == "<True>"
NativeFalse == "<False>"

\* A state that is None.
NativeNone == "<None>"

\* float(state.state) on the states of the model: those it parses, with
\* their values (float(True) is 1.0); on every other it raises ValueError.
FloatTable ==
    ("1" :> 1) @@ ("0" :> 0) @@ ("40" :> 40) @@ ("55" :> 55)
        @@ (NativeTrue :> 1) @@ (NativeFalse :> 0)

is_float(state) == state.state \in DOMAIN FloatTable

BoolTokens == {"on", "off", "yes", "no", "true", "false", "1", "0",
               NativeTrue, NativeFalse}
TrueTokens == {"on", "yes", "true", "1", NativeTrue}

is_bool(state) ==
    state.state \in {NativeTrue, NativeFalse} \/ state.state \in BoolTokens

\* bool(state.state): the truth value of the object itself.
as_bool_truthy(state) == state.state # ""

as_bool(state) ==
    IF state.state \in {NativeTrue, NativeFalse}
    THEN state.state = NativeTrue
    ELSE state.state \in TrueTokens

\* [f(s) for s in states if p(s)], for the two filters of the library.
RECURSIVE float_states(_)
float_states(states) ==
    IF states = <<>> THEN <<>>
    ELSE (IF is_float(Head(states))
          THEN <<FloatTable[Head(states).state]>> ELSE <<>>)
         \o float_states(Tail(states))

RECURSIVE bool_states(_)
bool_states(states) ==
    IF states = <<>> THEN <<>>
    ELSE (IF is_bool(Head(states)) THEN <<as_bool(Head(states))>> ELSE <<>>)
         \o bool_states(Tail(states))

RECURSIVE SeqSum(_)
SeqSum(s) == IF s = <<>> THEN 0 ELSE Head(s) + SeqSum(Tail(s))

\* sorted(): insertion into an ascending sequence.
RECURSIVE InsertSorted(_, _)
InsertSorted(x, s) ==
    IF s = <<>> THEN <<x>>
    ELSE IF x <= Head(s) THEN <<x>> \o s
    ELSE <<Head(s)>> \o InsertSorted(x, Tail(s))

RECURSIVE sorted(_)
sorted(s) == IF s = <<>> THEN <<>> ELSE InsertSorted(Head(s), sorted(Tail(s)))

SeqMax(s) == CHOOSE x \in {s[i] : i \in 1..Len(s)} :
                 \A j \in 1..Len(s) : s[j] <= x
SeqMin(s) == CHOOSE x \in {s[i] : i \in 1..Len(s)} :
                 \A j \in 1..Len(s) : x <= s[j]

calculate_max(states) ==
    LET calc_values == float_states(states)
    IN IF Len(calc_values) = 0 THEN StrV(STATE_UNKNOWN)
       ELSE NumV(SeqMax(calc_values), 1)

calculate_min(states) ==
    LET calc_values == float_states(states)
    IN IF Len(calc_values) = 0 THEN StrV(STATE_UNKNOWN)
       ELSE NumV(SeqMin(calc_values), 1)

\* calculate_mean dividing by the number of all states.
calculate_mean_over_all(states) ==
    LET calc_values == float_states(states)
    IN IF Len(calc_values) = 0 THEN StrV(STATE_UNKNOWN)
       ELSE NumV(SeqSum(calc_values), Len(states))

calculate_mean(states) ==
    LET calc_values == float_states(states)
    IN IF Len(calc_values) = 0 THEN StrV(STATE_UNKNOWN)
       ELSE NumV(SeqSum(calc_values), Len(calc_values))

calculate_median(states) ==
    LET calc_values == float_states(states)
        srt == sorted(calc_values)
        k == Len(calc_values)
    IN IF k = 0 THEN StrV(STATE_UNKNOWN)
       ELSE IF k % 2 = 1 THEN NumV(srt[(k + 1) \div 2], 1)
       ELSE NumV(srt[k \div 2] + srt[k \div 2 + 1], 2)

CountOf(s, b) == Cardinality({i \in 1..Len(s) : s[i] = b})

calculate_all(states) ==
    LET calc_values == bool_states(states)
    IN IF Len(calc_values) = 0 THEN StrV(STATE_UNKNOWN)
       ELSE BoolV(CountOf(calc_values, FALSE) = 0)

calculate_one(states) ==
    LET calc_values == bool_states(states)
    IN IF Len(calc_values) = 0 THEN StrV(STATE_UNKNOWN)
       ELSE BoolV(CountOf(calc_values, TRUE) > 0)

calculate_none(states) ==
    LET calc_values == bool_states(states)
    IN IF Len(calc_values) = 0 THEN StrV(STATE_UNKNOWN)
       ELSE BoolV(CountOf(calc_values, TRUE) = 0)

\* [s for s in states if s.state is not None and s.state not in [...]].
RECURSIVE last_states(_)
last_states(states) ==
    IF states = <<>> THEN <<>>
    ELSE (IF /\ Head(states).state # NativeNone
             /\ Head(states).state \notin {STATE_UNKNOWN, STATE_UNAVAILABLE}
          THEN <<Head(states)>> ELSE <<>>)
         \o last_states(Tail(states))

\* state.state as a calculation returns it, unchanged: the native booleans
\* are booleans, every other state of the model is its string.
StateValue(state) ==
    IF state.state = NativeTrue THEN BoolV(TRUE)
    ELSE IF state.state = NativeFalse THEN BoolV(FALSE)
    ELSE StrV(state.state)

\* calculate_last taking the head of the reversed ascending sort: of the
\* states with the greatest last_updated the last one wins.
calculate_last_reversed(states) ==
    LET calc_values == last_states(states)
        latest == CHOOSE i \in 1..Len(calc_values) :
                    /\ \A j \in 1..Len(calc_values) :
                          calc_values[j].last_updated
                              <= calc_values[i].last_updated
                    /\ \A j \in (i + 1)..Len(calc_values) :
                          calc_values[j].last_updated
                              < calc_values[i].last_updated
    IN IF Len(calc_values) = 0 THEN StrV(STATE_UNKNOWN)
       ELSE StateValue(calc_values[latest])

\* sorted(calc_values, key=last_updated, reverse=True)[0]: the sort is
\* stable, so of the states with the greatest last_updated the first wins.
calculate_last(states) ==
    LET calc_values == last_states(states)
        first == CHOOSE i \in 1..Len(calc_values) :
                    /\ \A j \in 1..Len(calc_values) :
                          calc_values[j].last_updated
                              <= calc_values[i].last_updated
                    /\ \A j \in 1..(i - 1) :
                          calc_values[j].last_updated
                              < calc_values[i].last_updated
    IN IF Len(calc_values) = 0 THEN StrV(STATE_UNKNOWN)
       ELSE StateValue(calc_values[first])

CALCULATE == {CALCULATE_MAX, CALCULATE_MEAN, CALCULATE_MIN, CALCULATE_MEDIAN,
              CALCULATE_ALL, CALCULATE_ONE, CALCULATE_NONE, CALCULATE_LAST}

Calculate(key, states) ==
    CASE key = CALCULATE_MAX -> calculate_max(states)
      [] key = CALCULATE_MEAN -> calculate_mean(states)
      [] key = CALCULATE_MIN -> calculate_min(states)
      [] key = CALCULATE_MEDIAN -> calculate_median(states)
      [] key = CALCULATE_ALL -> calculate_all(states)
      [] key = CALCULATE_ONE -> calculate_one(states)
      [] key = CALCULATE_NONE -> calculate_none(states)
      [] key = CALCULATE_LAST -> calculate_last(states)

DEFAULT_CALCULATION_ILLUMINANCE == CALCULATE_LAST
DEFAULT_CALCULATION_TEMPERATURE == CALCULATE_MEAN
DEFAULT_CALCULATION_HUMIDITY == CALCULATE_MAX
DEFAULT_CALCULATION_PRESENCE == CALCULATE_ALL

\* The option keys of const.py.
CONFIG_ILLUMINANCE_CALCULATION == "illuminance_calculation"
CONFIG_TEMPERATURE_CALCULATION == "temperature_calculation"
CONFIG_HUMIDITY_CALCULATION == "humidity_calculation"
CONFIG_PRESENCE_CALCULATION == "presence_calculation"
CONFIG_EXCLUDED_TEMPERATURE_ENTITIES == "excluded_temperature_entities"
CONFIG_EXCLUDED_HUMIDITY_ENTITIES == "excluded_humidity_entities"
CONFIG_EXCLUDED_ILLUMINANCE_ENTITIES == "excluded_illuminance_entities"
CONFIG_LIGHT_CONTROL == "light_control"

\* config_options.get(key, default)
OptionsGet(config_options, key, default) ==
    IF key \in DOMAIN config_options THEN config_options[key] ELSE default

NoKey == "<none>"

get_calculation_key(config_options, sensor_type) ==
    CASE sensor_type = ILLUMINANCE ->
            OptionsGet(config_options, CONFIG_ILLUMINANCE_CALCULATION,
                       DEFAULT_CALCULATION_ILLUMINANCE)
      [] sensor_type = TEMPERATURE ->
            OptionsGet(config_options, CONFIG_TEMPERATURE_CALCULATION,
                       DEFAULT_CALCULATION_TEMPERATURE)
      [] sensor_type = HUMIDITY ->
            OptionsGet(config_options, CONFIG_HUMIDITY_CALCULATION,
                       DEFAULT_CALCULATION_HUMIDITY)
      [] sensor_type \in PRESENCE_BINARY_SENSOR_DEVICE_CLASSES ->
            OptionsGet(config_options, CONFIG_PRESENCE_CALCULATION,
                       DEFAULT_CALCULATION_PRESENCE)
      [] OTHER -> NoKey

\* get_calculation with the default strategy of the device class in the
\* place of a key that CALCULATE does not have.
get_calculation_defaulting(config_options, sensor_type) ==
    LET key == get_calculation_key(config_options, sensor_type)
    IN IF key = NoKey THEN NoKey
       ELSE IF key \in CALCULATE THEN key
       ELSE get_calculation_key(<< >>, sensor_type)

\* get_calculation: the strategy's key when CALCULATE has it, else None.
get_calculation(config_options, sensor_type) ==
    LET key == get_calculation_key(config_options, sensor_type)
    IN IF key = NoKey THEN NoKey
       ELSE IF key \in CALCULATE THEN key ELSE NoKey

(***************************************************************************)
(* State.                                                                  *)
(***************************************************************************)
VARIABLES
    is_running,       \* hass.is_running
    registry,         \* the host's entity registry, in insertion order
    hass_states,      \* hass.states: entity id -> state string
    options,          \* config_entry.options
    listening,        \* the registry listener of async_init is registered
    auto_entities,    \* auto_area.auto_entities: device class -> Tracker
    last,             \* the operation that ran last, and what it did
    events,           \* the number of host events so far
    auto_area,        \* the AutoArea of the config entry
    calc,             \* a call of the calculation library, and its result
    old_contexts      \* the contexts of the entry's earlier setups: the
                      \* AutoArea, its Trackers, its registry listener

vars == <<is_running, registry, hass_states, options, listening,
          auto_entities, last, events, auto_area, calc, old_contexts>>

\* A value that was never written / a cached_property that was never read.
Unset == [kind |-> "unset", s |-> "", n |-> 0, d |-> 1]

\* self._async_unsub_state_changed: None, or the handle of a subscription
\* to the state changes of `ids`.
NoSubscription == [active |-> FALSE, ids |-> {}]
Subscription(ids) == [active |-> TRUE, ids |-> ids]

SeqToSet(s) == {s[i] : i \in 1..Len(s)}

\* The options the config entry is set up with: the default strategies
\* (mean for temperature, all for presence) and light control, or max and
\* one, with entity 2 excluded from the temperature Tracker and no light
\* control.
OptionSets ==
    { (CONFIG_EXCLUDED_TEMPERATURE_ENTITIES :> {}),
      (CONFIG_TEMPERATURE_CALCULATION :> CALCULATE_MAX)
          @@ (CONFIG_PRESENCE_CALCULATION :> CALCULATE_ONE)
          @@ (CONFIG_EXCLUDED_TEMPERATURE_ENTITIES :> {2})
          @@ (CONFIG_LIGHT_CONTROL :> FALSE) }

(***************************************************************************)
(* The Area Context: auto_area.py.  auto_lights.py is not among the        *)
(* sources: of the lighting collaborator the model keeps whether it was    *)
(* started and whether it was cleaned up.                                  *)
(***************************************************************************)
\* entry.data.get(CONFIG_AREA): the area of this entry, no area id at all,
\* or the id of an area the host's area registry does not have.
NoAreaId == "<none>"
UnknownArea == "area_x"
AreaIds == {ThisArea, NoAreaId, UnknownArea}

\* area_registry.async_get_area(area_id or "") is not None
async_get_area(area_id) == area_id \in Areas

\* self.auto_lights: None, an AutoLights that was initialized, or one that
\* was cleaned up.
NoLights == "<none>"
LightsInitialized == "initialized"
LightsCleanedUp == "cleaned_up"

\* AutoArea.__init__: the area context of an entry whose data names
\* area_id.  `issue` is the invalid_area_config issue (fixable, an error);
\* `stage` is how far async_init has come for the entry, `loaded` whether
\* hass.data holds the context, `entry_state` the state the host keeps for
\* the config entry: async_setup_entry or async_unload_entry has not
\* returned yet, the entry is loaded, not loaded, or failed to unload;
\* `awaits` is the context (the how-manieth setup of the entry) whose
\* Trackers the platforms constructed on the forward of this async_init.
SETUP_IN_PROGRESS == "setup_in_progress"
LOADED == "loaded"
UNLOAD_IN_PROGRESS == "unload_in_progress"
NOT_LOADED == "not_loaded"
FAILED_UNLOAD == "failed_unload"

\* No context: the forward of async_init handed no Tracker to the host.
NoContext == 0

AutoArea(area_id) ==
    [area_id |-> area_id,
     area |-> async_get_area(area_id),
     auto_lights |-> NoLights,
     issue |-> (area_id = NoAreaId \/ ~async_get_area(area_id)),
     stage |-> "constructed",
     loaded |-> TRUE,
     entry_state |-> SETUP_IN_PROGRESS,
     awaits |-> NoContext]

\* AutoArea.async_initialize: the lighting collaborator is constructed and
\* initialized unless the options switch light control off.
async_initialize(aa, opts) ==
    IF ~OptionsGet(opts, CONFIG_LIGHT_CONTROL, TRUE) THEN aa
    ELSE [aa EXCEPT !.auto_lights = LightsInitialized]

\* AutoArea.cleanup
cleanup(aa) ==
    IF aa.auto_lights # NoLights
    THEN [aa EXCEPT !.auto_lights = LightsCleanedUp]
    ELSE aa

\* No call of the calculation library was made.
NoCalc == [op |-> "", t |-> "", states |-> <<>>, result |-> NoneV]

(***************************************************************************)
(* Membership: ha_helpers.py (not among the sources: modelled from the     *)
(* specification's Membership Resolver), auto_area.py, auto_entity.py.     *)
(***************************************************************************)
RECURSIVE SelectEntries(_, _)
SelectEntries(reg, area_id) ==
    IF reg = <<>> THEN <<>>
    ELSE (IF Head(reg).area_id = area_id THEN <<Head(reg)>> ELSE <<>>)
         \o SelectEntries(Tail(reg), area_id)

\* The registry entries the area holds.
get_all_entities(reg, area_id) == SelectEntries(reg, area_id)

\* Not disabled, and not currently unavailable.
is_valid_entity(st, entity) ==
    /\ ~entity.disabled
    /\ st[entity.entity_id] # STATE_UNAVAILABLE

RECURSIVE FilterValid(_, _)
FilterValid(entries, st) ==
    IF entries = <<>> THEN <<>>
    ELSE (IF is_valid_entity(st, Head(entries)) THEN <<Head(entries)>> ELSE <<>>)
         \o FilterValid(Tail(entries), st)

\* get_all_entities is asked for self.area_id or "": no entry has that area
\* when the context has no area id.
get_valid_entities(reg, st) ==
    FilterValid(get_all_entities(reg, auto_area.area_id), st)

_excluded_entities(t, opts) ==
    IF t = TEMPERATURE
    THEN OptionsGet(opts, CONFIG_EXCLUDED_TEMPERATURE_ENTITIES, {})
    ELSE IF t = HUMIDITY
    THEN OptionsGet(opts, CONFIG_EXCLUDED_HUMIDITY_ENTITIES, {})
    ELSE IF t = ILLUMINANCE
    THEN OptionsGet(opts, CONFIG_EXCLUDED_ILLUMINANCE_ENTITIES, {})
    ELSE {}

\* The membership test of AutoEntity.get_sensor_entities and of its
\* override in PresenceBinarySensor.
IsSensorEntity(t, entity, opts) ==
    IF t = OCCUPANCY
    THEN \/ entity.device_class \in PRESENCE_BINARY_SENSOR_DEVICE_CLASSES
         \/ entity.original_device_class
                \in PRESENCE_BINARY_SENSOR_DEVICE_CLASSES
    ELSE /\ \/ entity.device_class = t
            \/ entity.original_device_class = t
         /\ entity.entity_id \notin _excluded_entities(t, opts)

RECURSIVE SensorIds(_, _, _)
SensorIds(t, entries, opts) ==
    IF entries = <<>> THEN <<>>
    ELSE (IF IsSensorEntity(t, Head(entries), opts)
          THEN <<Head(entries).entity_id>> ELSE <<>>)
         \o SensorIds(t, Tail(entries), opts)

get_sensor_entities(t, reg, st, opts) ==
    SensorIds(t, get_valid_entities(reg, st), opts)

(***************************************************************************)
(* The Tracker: auto_entity.py, sensor.py, binary_sensor.py.               *)
(***************************************************************************)
\* The snapshot is a dict entity id -> State: a function on all entities
\* that is NoState where the dict has no key.
EmptySnapshot == [e \in Entities |-> NoState]
Keys(snap) == {e \in Entities : snap[e] # NoState}

\* A State object, as far as the Trackers read it; where the code has None
\* for a State (no state in the state machine), its state is NoState.
State(e, v) == [entity_id |-> e, state |-> v]

\* new_state=None, the default of _async_update_group_state.
NoNewState == State(0, NoState)

\* list(self.entity_states.values())
RECURSIVE ValuesFrom(_, _)
ValuesFrom(snap, e) ==
    IF e > NumEntities THEN <<>>
    ELSE (IF snap[e] # NoState THEN <<State(e, snap[e])>> ELSE <<>>)
         \o ValuesFrom(snap, e + 1)
Values(snap) == ValuesFrom(snap, 1)

\* self._extra_attributes: {} as constructed, the two counts once the
\* presence Tracker has computed its state.
NoExtraAttributes == [set |-> FALSE, num_false |-> 0, num_true |-> 0]

\* The attributes of the entity: none were read yet, or the mapping that
\* extra_state_attributes returned.
NoAttributes ==
    [cached |-> FALSE, calculation |-> "", entities |-> EmptySnapshot,
     extra |-> NoExtraAttributes]

\* AutoEntity.__init__: the Tracker as constructed.  `added` (the host has
\* run async_added_to_hass), `removed` (the host has removed the entity),
\* `on_remove_sub` (the ids of the subscription
\* that async_added_to_hass hands to async_on_remove), `published` (the
\* state last written to the host), `state_cache` (the cached_property
\* `state` of the presence Tracker) and `attributes` (the cached_property
\* extra_state_attributes, which the host reads at every write) are the
\* host's side of the entity.
NewTracker ==
    [constructed |-> TRUE,
     added |-> FALSE,
     removed |-> FALSE,
     entity_ids |-> <<>>,
     entity_states |-> EmptySnapshot,
     extra_attributes |-> NoExtraAttributes,
     aggregated_state |-> NoneV,
     unsub_state_changed |-> NoSubscription,
     on_remove_sub |-> {},
     published |-> Unset,
     state_cache |-> Unset,
     attributes |-> NoAttributes]

\* The platform has not constructed the Tracker: auto_area.auto_entities
\* has no entry for the device class.
NotConstructed == [NewTracker EXCEPT !.constructed = FALSE]

\* _see_state without the branch for unknown and unavailable.
_see_state_storing_markers(snap, state) ==
    IF state.state = NoState THEN snap
    ELSE [snap EXCEPT ![state.entity_id] = state.state]

\* _see_state: the snapshot after it has seen `state`.
_see_state(snap, state) ==
    IF state.state = NoState THEN snap
    ELSE IF state.state \in {STATE_UNKNOWN, STATE_UNAVAILABLE}
    THEN [snap EXCEPT ![state.entity_id] = NoState]
    ELSE [snap EXCEPT ![state.entity_id] = state.state]

\* hass.states.get(entity_id)
StatesGet(st, e) == State(e, st[e])

RECURSIVE SeeAll(_, _, _)
SeeAll(snap, ids, st) ==
    IF ids = <<>> THEN snap
    ELSE SeeAll(IF StatesGet(st, Head(ids)).state # NoState
                THEN _see_state(snap, StatesGet(st, Head(ids)))
                ELSE snap,
                Tail(ids), st)

\* _reset_tracked_state without the assignment to entity_ids.
_reset_tracked_state_keeping_ids(t, tr, reg, st, opts) ==
    LET ids == get_sensor_entities(t, reg, st, opts)
    IN [tr EXCEPT !.entity_states = SeeAll(EmptySnapshot, ids, st)]

\* _reset_tracked_state without the assignment of {} to entity_states.
_reset_tracked_state_keeping_snapshot(t, tr, reg, st, opts) ==
    LET ids == get_sensor_entities(t, reg, st, opts)
    IN [tr EXCEPT !.entity_ids = ids,
                  !.entity_states = SeeAll(tr.entity_states, ids, st)]

\* _reset_tracked_state
_reset_tracked_state(t, tr, reg, st, opts) ==
    LET ids == get_sensor_entities(t, reg, st, opts)
    IN [tr EXCEPT !.entity_ids = ids,
                  !.entity_states = SeeAll(EmptySnapshot, ids, st)]

\* AutoEntity._get_state, which the overrides of AutoSensorEntity and
\* PresenceBinarySensor return unchanged.
_get_state(t, values, opts) ==
    IF Len(values) = 0 THEN StrV(STATE_UNAVAILABLE)
    ELSE LET calculate_state == get_calculation(opts, t)
         IN IF calculate_state = NoKey THEN NoneV
            ELSE Calculate(calculate_state, values)

\* PresenceBinarySensor.is_on and .state
is_on(agg) == IF agg.kind = "bool" THEN agg ELSE NoneV
presence_state(agg) ==
    IF is_on(agg) = NoneV THEN NoneV
    ELSE IF is_on(agg).n = 1 THEN StrV("on") ELSE StrV("off")

\* PresenceBinarySensor._get_state: the counts it leaves in
\* self._extra_attributes; the sensors leave _extra_attributes alone.
_extra_attributes(t, tr, values) ==
    IF t = OCCUPANCY
    THEN [set |-> TRUE,
          num_false |-> CountOf(bool_states(values), FALSE),
          num_true |-> CountOf(bool_states(values), TRUE)]
    ELSE tr.extra_attributes

\* AutoEntity.extra_state_attributes, as the property computes it.
extra_state_attributes(t, tr, opts) ==
    [cached |-> TRUE,
     calculation |-> get_calculation_key(opts, t),
     entities |-> tr.entity_states,
     extra |-> tr.extra_attributes]

\* async_write_ha_state: the Tracker hands its state and attributes to the
\* host.  A sensor hands over _attr_native_value; the presence Tracker its
\* `state`, a cached_property: computed at the first read, the same from
\* then on.  extra_state_attributes is a cached_property of every Tracker.
async_write_ha_state(t, tr, opts) ==
    LET attrs == IF tr.attributes.cached THEN tr.attributes
                 ELSE extra_state_attributes(t, tr, opts)
    IN IF t = OCCUPANCY
       THEN LET v == IF tr.state_cache = Unset
                     THEN presence_state(tr.aggregated_state)
                     ELSE tr.state_cache
            IN [tr EXCEPT !.published = v, !.state_cache = v,
                          !.attributes = attrs]
       ELSE [tr EXCEPT !.published = tr.aggregated_state,
                       !.attributes = attrs]

\* _async_update_group_state
_async_update_group_state(t, tr, new_state, opts) ==
    LET snap == IF new_state.state # NoState
                THEN _see_state(tr.entity_states, new_state)
                ELSE tr.entity_states
    IN [tr EXCEPT !.entity_states = snap,
                  !.extra_attributes = _extra_attributes(t, tr, Values(snap)),
                  !.aggregated_state = _get_state(t, Values(snap), opts)]

\* _update_at_start
_update_at_start(t, tr, reg, st, opts) ==
    async_write_ha_state(t,
        _async_update_group_state(t, _reset_tracked_state(t, tr, reg, st, opts),
                                  NoNewState, opts),
        opts)

\* async_defer_or_update_ha_state, the body of the listener that
\* async_added_to_hass subscribes.
async_defer_or_update_ha_state(t, tr, running, opts) ==
    IF ~running THEN tr
    ELSE async_write_ha_state(t,
             _async_update_group_state(t, tr, NoNewState, opts), opts)

\* _async_state_changed_listener without the test for a stopped Tracker.
_async_state_changed_listener_unguarded(t, tr, new_state, reg, st, opts) ==
    LET tr1 == IF new_state.state = NoState
               THEN _reset_tracked_state(t, tr, reg, st, opts)
               ELSE tr
    IN async_write_ha_state(t,
           _async_update_group_state(t, tr1, new_state, opts), opts)

\* _async_state_changed_listener
_async_state_changed_listener(t, tr, new_state, reg, st, opts) ==
    IF ~tr.unsub_state_changed.active THEN tr
    ELSE LET tr1 == IF new_state.state = NoState
                    THEN _reset_tracked_state(t, tr, reg, st, opts)
                    ELSE tr
         IN async_write_ha_state(t,
                _async_update_group_state(t, tr1, new_state, opts), opts)

\* _async_stop that calls the handle and keeps it.
_async_stop_keeping_handle(tr) == tr

\* _async_stop
_async_stop(tr) == [tr EXCEPT !.unsub_state_changed = NoSubscription]

\* The calls of the host's unsubscribe callback that _async_stop makes on
\* Tracker record tr: one when it finds a handle, none otherwise.
UnsubscribeCalls(tr) == IF tr.unsub_state_changed.active THEN 1 ELSE 0

\* _async_start_tracking
_async_start_tracking(t, tr, opts) ==
    LET tr1 == IF tr.entity_ids # <<>> /\ ~tr.unsub_state_changed.active
               THEN [tr EXCEPT !.unsub_state_changed =
                                   Subscription(SeqToSet(tr.entity_ids))]
               ELSE tr
    IN _async_update_group_state(t, tr1, NoNewState, opts)

\* The test without sorted().
SameIds_unsorted(current_ids, new_ids) == current_ids = new_ids

\* The test that opens async_update_tracked_entity_ids and the sweep.
SameIds(current_ids, new_ids) == sorted(current_ids) = sorted(new_ids)

\* async_update_tracked_entity_ids
async_update_tracked_entity_ids(t, tr, reg, st, opts) ==
    IF SameIds(tr.entity_ids, get_sensor_entities(t, reg, st, opts))
    THEN tr
    ELSE async_write_ha_state(t,
             _async_start_tracking(t,
                 _reset_tracked_state(t, _async_stop(tr), reg, st, opts),
                 opts),
             opts)

\* The calls of the host's unsubscribe and subscribe that
\* async_update_tracked_entity_ids makes on the way from tr to tr2:
\* _async_stop calls the handle it finds, _async_start_tracking subscribes
\* when the ids are not empty.
Resubscription(t, tr, reg, st, opts) ==
    IF SameIds(tr.entity_ids, get_sensor_entities(t, reg, st, opts))
    THEN [unsubscribed |-> FALSE, subscribed |-> FALSE]
    ELSE [unsubscribed |-> tr.unsub_state_changed.active,
          subscribed |->
              _reset_tracked_state(t, tr, reg, st, opts).entity_ids # <<>>]

(***************************************************************************)
(* The sweep of the area: __init__.py.                                     *)
(***************************************************************************)
NoArea == "<none>"
NoTracker == "<none>"

\* An entity-registry-updated event: its action and changes["area_id"]
\* (NoArea where the changes have no area_id, or the event has no changes).
RegistryEvent(action, area_id) == [action |-> action, area_id |-> area_id]

\* The Trackers of auto_area.auto_entities, in order, whose resolved ids
\* differ from their entity_ids; the dictionary holds a Tracker from its
\* construction on.
RECURSIVE ChangedFrom(_, _, _, _, _)
ChangedFrom(i, ae, reg, st, opts) ==
    IF i > Len(TrackerOrder) THEN <<>>
    ELSE (IF \/ ~ae[TrackerOrder[i]].constructed
             \/ SameIds(ae[TrackerOrder[i]].entity_ids,
                        get_sensor_entities(TrackerOrder[i], reg, st, opts))
          THEN <<>> ELSE <<TrackerOrder[i]>>)
         \o ChangedFrom(i + 1, ae, reg, st, opts)

\* async_entity_registry_updated.  AutoEntity has no track_state_changes:
\* the call on the first Tracker whose ids changed raises AttributeError,
\* which ends the sweep; no Tracker is changed.
async_entity_registry_updated(event, ae, reg, st, opts) ==
    IF event.action = "update" /\ event.area_id # auto_area.area_id
    THEN [ignored |-> TRUE, raised |-> FALSE, attempted |-> NoTracker]
    ELSE LET changed == ChangedFrom(1, ae, reg, st, opts)
         IN IF changed = <<>>
            THEN [ignored |-> FALSE, raised |-> FALSE, attempted |-> NoTracker]
            ELSE [ignored |-> FALSE, raised |-> TRUE,
                  attempted |-> Head(changed)]

\* auto_area.auto_entities after the sweep: the handler changes a Tracker
\* only through the call of track_state_changes, which raises before it
\* does anything, so every Tracker is as it was.
SweptTrackers(event, ae, reg, st, opts) == ae

(***************************************************************************)
(* Initial state: the host is running (async_init runs only then), the     *)
(* AutoArea and its Trackers are constructed, nothing is added yet.        *)
(***************************************************************************)
\* What `last` records: the operation, the Tracker or the entity it was
\* about, of a registry event its action and what the sweep did (ignored the
\* event, raised, the Tracker on which it called track_state_changes), and
\* of a resync whether it unsubscribed and subscribed.
Last(op, t, e) ==
    [op |-> op, t |-> t, e |-> e, action |-> "", ignored |-> FALSE,
     raised |-> FALSE, attempted |-> NoTracker, unsubscribed |-> FALSE,
     subscribed |-> FALSE, listeners |-> 0]

\* The registry holds every entity, enabled and in the area, and each has
\* the state "1".
Init ==
    /\ is_running = TRUE
    /\ registry = [e \in Entities |->
                      RegistryEntry(e, ThisArea)]
    /\ hass_states = [e \in Entities |-> "1"]
    /\ options \in OptionSets
    /\ listening = FALSE
    /\ auto_entities = [t \in Trackers |-> NewTracker]
    /\ last = Last("init", NoTracker, 0)
    /\ events = 0
    /\ auto_area = [async_initialize(AutoArea(ThisArea), options)
                       EXCEPT !.stage = "forwarded", !.awaits = 1]
    /\ calc = NoCalc
    /\ old_contexts = <<>>

(***************************************************************************)
(* Actions.                                                                *)
(***************************************************************************)
\* AutoEntity.async_added_to_hass: resolve the ids, subscribe the listener
\* that calls async_defer_or_update_ha_state, and register _update_at_start,
\* which async_at_start calls at once when the host is running.
async_added_to_hass(t, tr, running, reg, st, opts) ==
    LET ids == get_sensor_entities(t, reg, st, opts)
        tr1 == [tr EXCEPT !.added = TRUE,
                          !.entity_ids = ids,
                          !.on_remove_sub = SeqToSet(ids)]
    IN IF running THEN _update_at_start(t, tr1, reg, st, opts) ELSE tr1

AsyncAddedToHass(t) ==
    /\ auto_entities[t].constructed
    /\ ~auto_entities[t].added
    /\ ~auto_entities[t].removed
    /\ auto_entities' =
           [auto_entities EXCEPT ![t] =
                async_added_to_hass(t, auto_entities[t], is_running, registry,
                                    hass_states, options)]
    /\ last' = Last("added", t, 0)
    /\ UNCHANGED <<is_running, registry, hass_states, options, listening,
                   events, auto_area, calc, old_contexts>>

\* The context of the entry's k-th setup: the Trackers of its AutoArea.
EntitiesOf(k) ==
    IF k = Len(old_contexts) + 1 THEN auto_entities
    ELSE old_contexts[k].auto_entities

\* The await of async_forward_entry_setups in the async_init of AutoArea aa
\* returns when the host has added the Trackers that the platforms handed
\* to it on this forward; it returns at once when they constructed none.
ForwardReturned(aa) ==
    IF aa.awaits = NoContext THEN TRUE
    ELSE \A t \in Trackers :
             EntitiesOf(aa.awaits)[t].added \/ EntitiesOf(aa.awaits)[t].removed

\* async_init registers the registry listener once
\* async_forward_entry_setups has returned, whether the entry is still
\* loaded or not and whatever Trackers there are, and returns; an
\* async_setup_entry that awaited it returns too, and the entry is loaded.
ListenRegistry ==
    /\ auto_area.stage = "forwarded"
    /\ ~listening
    /\ ForwardReturned(auto_area)
    /\ listening' = TRUE
    /\ auto_area' = IF auto_area.entry_state = SETUP_IN_PROGRESS
                    THEN [auto_area EXCEPT !.entry_state = LOADED]
                    ELSE auto_area
    /\ last' = Last("listen", NoTracker, 0)
    /\ UNCHANGED <<is_running, registry, hass_states, options, auto_entities,
                   events, calc, old_contexts>>

\* What the listeners of Tracker t do with a state-changed event of entity
\* e: first the listener of async_added_to_hass, then
\* _async_state_changed_listener, each if it is subscribed to e.
Dispatch(t, tr, e, v, running, reg, st, opts) ==
    LET tr1 == IF tr.added /\ e \in tr.on_remove_sub
               THEN async_defer_or_update_ha_state(t, tr, running, opts)
               ELSE tr
    IN IF tr1.unsub_state_changed.active /\ e \in tr1.unsub_state_changed.ids
       THEN _async_state_changed_listener(t, tr1, State(e, v), reg, st, opts)
       ELSE tr1

\* The host sets the state of entity e to v (NoState: removes it) and fires
\* the state-changed event, which the subscribed listeners handle: those
\* of the Trackers of the entry's context, loaded or not, and those of the
\* Trackers of its earlier contexts.
StateChanged(e, v) ==
    /\ events < MaxEvents
    /\ hass_states[e] # v
    /\ hass_states' = [hass_states EXCEPT ![e] = v]
    /\ auto_entities' =
           [t \in Trackers |->
                Dispatch(t, auto_entities[t], e, v, is_running, registry,
                         hass_states', options)]
    /\ old_contexts' =
           [i \in 1..Len(old_contexts) |->
               [old_contexts[i] EXCEPT !.auto_entities =
                   [t \in Trackers |->
                        Dispatch(t, old_contexts[i].auto_entities[t], e, v,
                                 is_running, registry, hass_states',
                                 options)]]]
    /\ last' = Last("state_changed", NoTracker, e)
    /\ events' = events + 1
    /\ UNCHANGED <<is_running, registry, options, listening, auto_area, calc>>

\* The registry listeners that are registered: the one of the entry's
\* context and those of its earlier contexts.
Listeners ==
    (IF listening THEN 1 ELSE 0)
        + Cardinality({i \in 1..Len(old_contexts) : old_contexts[i].listening})

\* The registry listener runs on the event, when it is registered.  The
\* listener of an earlier context walks the Trackers of that context and
\* changes none of them (see SweptTrackers).  The
\* handle that hass.bus.async_listen returns is dropped, so nothing removes
\* the listener: the registry's events reach it after the entry is
\* unloaded as before.
Sweep(event, reg) ==
    /\ events < MaxEvents
    /\ last' = IF listening
               THEN LET r == async_entity_registry_updated(
                                 event, auto_entities, reg, hass_states,
                                 options)
                    IN [Last("registry", NoTracker, 0) EXCEPT
                           !.action = event.action,
                           !.ignored = r.ignored, !.raised = r.raised,
                           !.attempted = r.attempted,
                           !.listeners = Listeners]
               ELSE [Last("registry_unheard", NoTracker, 0) EXCEPT
                        !.listeners = Listeners]
    /\ events' = events + 1
    /\ UNCHANGED <<is_running, hass_states, options, listening,
                   auto_entities, auto_area, calc, old_contexts>>

InRegistry(e) == \E i \in 1..Len(registry) : registry[i].entity_id = e

\* The host creates entity e, in an area.
RegistryCreate(e, area) ==
    /\ ~InRegistry(e)
    /\ registry' = Append(registry, RegistryEntry(e, area))
    /\ Sweep(RegistryEvent("create", NoArea), registry')

\* The host removes entity e.
RegistryRemove(e) ==
    /\ InRegistry(e)
    /\ registry' = SelectSeq(registry, LAMBDA r : r.entity_id # e)
    /\ Sweep(RegistryEvent("remove", NoArea), registry')

\* The host moves entity e to another area; the changes of the event carry
\* the area_id the entity had.
RegistryUpdateArea(e, area) ==
    \E i \in 1..Len(registry) :
        /\ registry[i].entity_id = e
        /\ registry[i].area_id # area
        /\ registry' = [registry EXCEPT ![i].area_id = area]
        /\ Sweep(RegistryEvent("update", registry[i].area_id), registry')

\* The host disables or enables entity e; the changes have no area_id.
RegistryUpdateDisabled(e) ==
    \E i \in 1..Len(registry) :
        /\ registry[i].entity_id = e
        /\ registry' = [registry EXCEPT ![i].disabled = ~registry[i].disabled]
        /\ Sweep(RegistryEvent("update", NoArea), registry')

\* A call of async_update_tracked_entity_ids on a Tracker: one the host
\* has added, one it has not added yet, or one it has removed.
UpdateTrackedEntityIds(t) ==
    /\ auto_entities[t].constructed
    /\ auto_entities' =
           [auto_entities EXCEPT ![t] =
                async_update_tracked_entity_ids(t, auto_entities[t], registry,
                                                hass_states, options)]
    /\ LET r == Resubscription(t, auto_entities[t], registry, hass_states,
                               options)
       IN last' = [Last("resync", t, 0) EXCEPT
                      !.unsubscribed = r.unsubscribed,
                      !.subscribed = r.subscribed]
    /\ UNCHANGED <<is_running, registry, hass_states, options, listening,
                   events, auto_area, calc, old_contexts>>

\* A call of the public async_update_group_state on a constructed Tracker:
\* the aggregate is computed from the snapshot, and nothing is written to
\* the host.
AsyncUpdateGroupState(t) ==
    /\ auto_entities[t].constructed
    /\ auto_entities' =
           [auto_entities EXCEPT ![t] =
                _async_update_group_state(t, auto_entities[t], NoNewState,
                                          options)]
    /\ last' = Last("update_group_state", t, 0)
    /\ UNCHANGED <<is_running, registry, hass_states, options, listening,
                   events, auto_area, calc, old_contexts>>

\* The host begins to stop: hass.is_running is false from then on.
HassStop ==
    /\ events < MaxEvents
    /\ is_running
    /\ is_running' = FALSE
    /\ last' = Last("stop", NoTracker, 0)
    /\ events' = events + 1
    /\ UNCHANGED <<registry, hass_states, options, listening, auto_entities,
                   auto_area, calc, old_contexts>>

\* A state-changed notification of entity e with new state v that was in
\* flight when a resync stopped Tracker t and did not subscribe again: the
\* host still calls _async_state_changed_listener with it.
InFlightStateChanged(t, e, v) ==
    /\ last.op = "resync"
    /\ last.t = t
    /\ last.unsubscribed
    /\ ~auto_entities[t].unsub_state_changed.active
    /\ auto_entities' =
           [auto_entities EXCEPT ![t] =
                _async_state_changed_listener(t, auto_entities[t], State(e, v),
                                              registry, hass_states, options)]
    /\ last' = Last("in_flight", t, e)
    /\ UNCHANGED <<is_running, registry, hass_states, options, listening,
                   events, auto_area, calc, old_contexts>>

\* The host removes the entity of a Tracker: it calls what the Tracker
\* handed to async_on_remove.  The Tracker overrides no
\* async_will_remove_from_hass, and nothing calls _async_stop here.
async_remove(tr) ==
    IF tr.added
    THEN [tr EXCEPT !.added = FALSE, !.removed = TRUE, !.on_remove_sub = {}]
    ELSE tr

\* async_unload_entry of a loaded entry, up to its await: cleanup() of the
\* context in hass.data, then the host begins to unload the platforms.
AsyncUnloadEntry ==
    /\ auto_area.entry_state = LOADED
    /\ auto_area.loaded
    /\ events < MaxEvents
    /\ auto_area' = [cleanup(auto_area) EXCEPT
                        !.entry_state = UNLOAD_IN_PROGRESS]
    /\ last' = Last("unload", NoTracker, 0)
    /\ events' = events + 1
    /\ UNCHANGED <<is_running, registry, hass_states, options, listening,
                   auto_entities, calc, old_contexts>>

\* While async_unload_entry waits in async_unload_platforms, the host
\* removes the entity of Tracker t.
AsyncRemoveEntity(t) ==
    /\ auto_area.entry_state = UNLOAD_IN_PROGRESS
    /\ auto_entities[t].added
    /\ auto_entities' = [auto_entities EXCEPT ![t] = async_remove(@)]
    /\ last' = Last("removed", t, 0)
    /\ UNCHANGED <<is_running, registry, hass_states, options, listening,
                   events, auto_area, calc, old_contexts>>

\* async_unload_platforms returns, every platform having removed its
\* entities, with `unloaded` (false when some platform of PLATFORMS did not
\* unload): async_unload_entry pops the context from hass.data if it is
\* true, and returns it.
AsyncUnloadPlatformsReturn(unloaded) ==
    /\ auto_area.entry_state = UNLOAD_IN_PROGRESS
    /\ \A t \in Trackers : ~auto_entities[t].added
    /\ auto_area' = IF unloaded
                    THEN [auto_area EXCEPT !.loaded = FALSE,
                                           !.entry_state = NOT_LOADED]
                    ELSE [auto_area EXCEPT !.entry_state = FAILED_UNLOAD]
    /\ last' = Last(IF unloaded THEN "unloaded" ELSE "unload_failed",
                    NoTracker, 0)
    /\ UNCHANGED <<is_running, registry, hass_states, options, listening,
                   auto_entities, events, calc, old_contexts>>

\* async_setup_entry of an entry that is not loaded, as the second half of
\* async_reload_entry (the options may have changed) or when the entry is
\* set up again: a new AutoArea takes the place in hass.data, and
\* async_init is begun (the host is running) or left to the host's start,
\* in which case async_setup_entry returns at once.  The context of the
\* setup before stays as it is: its Trackers, its registry listener and
\* its async_init, if that has not returned.
async_setup_entry(aa, running) ==
    [AutoArea(aa.area_id) EXCEPT
        !.stage = IF running THEN "init" ELSE "waiting",
        !.entry_state = IF running THEN SETUP_IN_PROGRESS ELSE LOADED]

AsyncSetupEntry(opts) ==
    /\ auto_area.entry_state = NOT_LOADED
    /\ options' = opts
    /\ old_contexts' = Append(old_contexts,
                              [auto_area |-> auto_area,
                               auto_entities |-> auto_entities,
                               listening |-> listening])
    /\ auto_area' = async_setup_entry(auto_area, is_running)
    /\ auto_entities' = [t \in Trackers |-> NotConstructed]
    /\ listening' = FALSE
    /\ last' = Last("setup", NoTracker, 0)
    /\ UNCHANGED <<is_running, registry, hass_states, events, calc>>

\* The listener of async_setup_entry for EVENT_HOMEASSISTANT_STARTED: the
\* async_init of the context begins.
init(aa) == IF aa.stage = "waiting" THEN [aa EXCEPT !.stage = "init"] ELSE aa

\* EVENT_HOMEASSISTANT_STARTED: every listener that an async_setup_entry
\* left runs, that of the entry's context and those of its earlier
\* contexts.
HassStarted ==
    /\ ~is_running
    /\ is_running' = TRUE
    /\ auto_area' = init(auto_area)
    /\ old_contexts' = [i \in 1..Len(old_contexts) |->
                           [old_contexts[i] EXCEPT !.auto_area = init(@)]]
    /\ last' = Last("started", NoTracker, 0)
    /\ UNCHANGED <<registry, hass_states, options, listening, auto_entities,
                   events, calc>>

\* async_init, after its sleep: auto_area.async_initialize().
AsyncInitialize ==
    /\ auto_area.stage = "init"
    /\ auto_area' = [async_initialize(auto_area, options) EXCEPT
                        !.stage = "initialized"]
    /\ last' = Last("initialize", NoTracker, 0)
    /\ UNCHANGED <<is_running, registry, hass_states, options, listening,
                   auto_entities, events, calc, old_contexts>>

\* async_setup_entry of binary_sensor.py and sensor.py, which the host
\* calls on async_forward_entry_setups: each reads the context that
\* hass.data holds for the entry (aa) and constructs its Trackers, which
\* enter aa.auto_entities (ae).  When hass.data holds none the lookup
\* raises KeyError and no Tracker is constructed; the host logs it and
\* the forward returns.  The host sets up the platforms of an entry once:
\* when the Trackers are constructed it calls neither again.
PlatformsConstruct(aa, ae) ==
    aa.loaded /\ \A t \in Trackers : ~ae[t].constructed

PlatformsSetupEntry(aa, ae) ==
    IF PlatformsConstruct(aa, ae)
    THEN [t \in Trackers |-> NewTracker]
    ELSE ae

\* The context whose Trackers a forward constructs now: the one that
\* hass.data holds, if any are constructed.
Awaited == IF PlatformsConstruct(auto_area, auto_entities)
           THEN Len(old_contexts) + 1
           ELSE NoContext

\* async_init: async_forward_entry_setups.  The platforms construct the
\* Trackers and hand them to the host, which adds them one by one.
AsyncForwardEntrySetups ==
    /\ auto_area.stage = "initialized"
    /\ auto_area' = [auto_area EXCEPT !.stage = "forwarded",
                                      !.awaits = Awaited]
    /\ auto_entities' = PlatformsSetupEntry(auto_area, auto_entities)
    /\ last' = Last("forward", NoTracker, 0)
    /\ UNCHANGED <<is_running, registry, hass_states, options, listening,
                   events, calc, old_contexts>>

\* The places of old_contexts: every setup after the first follows an
\* unload, which is one of the MaxEvents events.
ContextIndices == 1..MaxEvents

\* The async_init of an earlier context of the entry, which was not through
\* when the entry was unloaded and set up again, goes on after its sleep:
\* async_initialize() of its own AutoArea, with the options the entry has
\* now.
EarlierAsyncInitialize(i) ==
    /\ i \in DOMAIN old_contexts
    /\ old_contexts[i].auto_area.stage = "init"
    /\ old_contexts' =
           [old_contexts EXCEPT ![i].auto_area =
                [async_initialize(@, options) EXCEPT !.stage = "initialized"]]
    /\ last' = Last("earlier_initialize", NoTracker, 0)
    /\ UNCHANGED <<is_running, registry, hass_states, options, listening,
                   auto_entities, events, auto_area, calc>>

\* Its async_forward_entry_setups: the platforms read hass.data, which
\* holds the entry's context of now, or none.
EarlierAsyncForwardEntrySetups(i) ==
    /\ i \in DOMAIN old_contexts
    /\ old_contexts[i].auto_area.stage = "initialized"
    /\ old_contexts' = [old_contexts EXCEPT
                           ![i].auto_area.stage = "forwarded",
                           ![i].auto_area.awaits = Awaited]
    /\ auto_entities' = PlatformsSetupEntry(auto_area, auto_entities)
    /\ last' = Last("earlier_forward", NoTracker, 0)
    /\ UNCHANGED <<is_running, registry, hass_states, options, listening,
                   events, auto_area, calc>>

\* The host adds a Tracker of an earlier context, which the platforms had
\* handed to it before the entry was unloaded and set up again.
EarlierAsyncAddedToHass(i, t) ==
    /\ i \in DOMAIN old_contexts
    /\ old_contexts[i].auto_entities[t].constructed
    /\ ~old_contexts[i].auto_entities[t].added
    /\ ~old_contexts[i].auto_entities[t].removed
    /\ old_contexts' =
           [old_contexts EXCEPT ![i].auto_entities[t] =
                async_added_to_hass(t, @, is_running, registry, hass_states,
                                    options)]
    /\ last' = Last("earlier_added", t, 0)
    /\ UNCHANGED <<is_running, registry, hass_states, options, listening,
                   auto_entities, events, auto_area, calc>>

\* Its hass.bus.async_listen: the listener sweeps the Trackers of the
\* earlier AutoArea.
EarlierListenRegistry(i) ==
    /\ i \in DOMAIN old_contexts
    /\ old_contexts[i].auto_area.stage = "forwarded"
    /\ ~old_contexts[i].listening
    /\ ForwardReturned(old_contexts[i].auto_area)
    /\ old_contexts' = [old_contexts EXCEPT ![i].listening = TRUE]
    /\ last' = Last("earlier_listen", NoTracker, 0)
    /\ UNCHANGED <<is_running, registry, hass_states, options, listening,
                   auto_entities, events, auto_area, calc>>

Next ==
    \/ \E t \in Trackers : AsyncAddedToHass(t)
    \/ ListenRegistry
    \/ \E e \in Entities, v \in StateValues \cup {NoState} : StateChanged(e, v)
    \/ \E e \in Entities, a \in Areas : RegistryCreate(e, a)
    \/ \E e \in Entities : RegistryRemove(e)
    \/ \E e \in Entities, a \in Areas : RegistryUpdateArea(e, a)
    \/ \E e \in Entities : RegistryUpdateDisabled(e)
    \/ \E t \in Trackers : UpdateTrackedEntityIds(t)
    \/ \E t \in Trackers : AsyncUpdateGroupState(t)
    \/ \E t \in Trackers, e \in Entities, v \in StateValues \cup {NoState} :
           InFlightStateChanged(t, e, v)
    \/ AsyncUnloadEntry
    \/ \E t \in Trackers : AsyncRemoveEntity(t)
    \/ \E unloaded \in BOOLEAN : AsyncUnloadPlatformsReturn(unloaded)
    \/ \E opts \in OptionSets : AsyncSetupEntry(opts)
    \/ AsyncInitialize
    \/ AsyncForwardEntrySetups
    \/ HassStop

Spec == Init /\ [][Next]_vars

(***************************************************************************)
(* Setup of the entry: __init__.py.  async_setup_entry has constructed the *)
(* AutoArea, for whatever area id the entry's data holds, and has either   *)
(* begun async_init (the host is running) or left it to the host's start.  *)
(***************************************************************************)
InitSetup ==
    /\ is_running \in BOOLEAN
    /\ registry = [e \in Entities |->
                      RegistryEntry(e, ThisArea)]
    /\ hass_states = [e \in Entities |-> "1"]
    /\ options \in OptionSets
    /\ listening = FALSE
    /\ auto_entities = [t \in Trackers |-> NotConstructed]
    /\ last = Last("setup", NoTracker, 0)
    /\ events = 0
    /\ \E area_id \in AreaIds :
           auto_area = async_setup_entry(AutoArea(area_id), is_running)
    /\ calc = NoCalc
    /\ old_contexts = <<>>

NextSetup ==
    \/ HassStarted
    \/ AsyncInitialize
    \/ AsyncForwardEntrySetups
    \/ \E t \in Trackers : AsyncAddedToHass(t)
    \/ ListenRegistry
    \/ \E e \in Entities, v \in StateValues \cup {NoState} : StateChanged(e, v)
    \/ AsyncUnloadEntry
    \/ \E t \in Trackers : AsyncRemoveEntity(t)
    \/ \E unloaded \in BOOLEAN : AsyncUnloadPlatformsReturn(unloaded)
    \/ \E opts \in OptionSets : AsyncSetupEntry(opts)
    \/ \E i \in ContextIndices : EarlierAsyncInitialize(i)
    \/ \E i \in ContextIndices : EarlierAsyncForwardEntrySetups(i)
    \/ \E i \in ContextIndices : EarlierListenRegistry(i)
    \/ \E i \in ContextIndices, t \in Trackers : EarlierAsyncAddedToHass(i, t)

SpecSetup == InitSetup /\ [][NextSetup]_vars

(***************************************************************************)
(* The calculation library on its own: a list of states is handed to one   *)
(* of the calculations of CALCULATE, or to _get_state of a Tracker whose   *)
(* snapshot holds the list.                                                *)
(***************************************************************************)
\* The states of the lists: boolean tokens, strings that float() parses,
\* the native booleans, a string that is neither, the two markers and None.
CalcValues == {"on", "off", "1", "40", "55", NativeTrue, NativeFalse, "abc",
               STATE_UNKNOWN, STATE_UNAVAILABLE, NativeNone}

\* How last_updated runs along a list: rising, falling, or the same for all.
Orders == {"rising", "falling", "same"}

\* The list of State objects with the states vs, entity i at place i.
CalcStates(vs, order) ==
    [i \in 1..Len(vs) |->
        [entity_id |-> i, state |-> vs[i],
         last_updated |-> CASE order = "rising" -> i
                            [] order = "falling" -> Len(vs) + 1 - i
                            [] OTHER -> 1]]

CalcStateLists ==
    UNION {{CalcStates(vs, o) : vs \in [1..n -> CalcValues], o \in Orders} :
               n \in 0..MaxLen}

\* The options of the calls: the defaults, a strategy name that CALCULATE
\* does not have, and median and none.
CalcOptionSets ==
    { (CONFIG_EXCLUDED_TEMPERATURE_ENTITIES :> {}),
      (CONFIG_TEMPERATURE_CALCULATION :> "mode")
          @@ (CONFIG_PRESENCE_CALCULATION :> "any"),
      (CONFIG_TEMPERATURE_CALCULATION :> CALCULATE_MEDIAN)
          @@ (CONFIG_PRESENCE_CALCULATION :> CALCULATE_NONE) }

InitCalculations ==
    /\ is_running = TRUE
    /\ registry = [e \in Entities |->
                      RegistryEntry(e, ThisArea)]
    /\ hass_states = [e \in Entities |-> "1"]
    /\ options \in CalcOptionSets
    /\ listening = FALSE
    /\ auto_entities = [t \in Trackers |-> NewTracker]
    /\ last = Last("init", NoTracker, 0)
    /\ events = 0
    /\ auto_area = AutoArea(ThisArea)
    /\ calc \in {[NoCalc EXCEPT !.states = l] : l \in CalcStateLists}
    /\ old_contexts = <<>>

\* CALCULATE[key](states)
CalculateCall(key) ==
    /\ calc.op = ""
    /\ calc' = [calc EXCEPT !.op = key, !.result = Calculate(key, calc.states)]
    /\ UNCHANGED <<is_running, registry, hass_states, options, listening,
                   auto_entities, last, events, auto_area, old_contexts>>

\* _get_state of Tracker t with the list as the values of its snapshot;
\* that of the presence Tracker assigns the counts to _extra_attributes.
GetStateCall(t) ==
    /\ calc.op = ""
    /\ calc' = [calc EXCEPT !.op = "_get_state", !.t = t,
                            !.result = _get_state(t, calc.states, options)]
    /\ auto_entities' =
           [auto_entities EXCEPT ![t].extra_attributes =
                _extra_attributes(t, auto_entities[t], calc.states)]
    /\ UNCHANGED <<is_running, registry, hass_states, options, listening,
                   last, events, auto_area, old_contexts>>

NextCalculations ==
    \/ \E key \in CALCULATE : CalculateCall(key)
    \/ \E t \in Trackers : GetStateCall(t)

SpecCalculations == InitCalculations /\ [][NextCalculations]_vars

(***************************************************************************)
(* Membership on its own: get_sensor_entities of a Tracker of each device  *)
(* class, on a registry whose entries have any of the device classes, set  *)
(* by the user or not.                                                     *)
(***************************************************************************)
\* The device classes of the Trackers the platforms construct.
TrackerClasses == {ILLUMINANCE, TEMPERATURE, HUMIDITY, OCCUPANCY}

\* The device class the user has set on an entry (none, or one of two), and
\* the one its integration gave it.
ExplicitClasses == {NoClass, TEMPERATURE, HUMIDITY}
OriginalClasses == {TEMPERATURE, HUMIDITY, OCCUPANCY}

\* The options of the calls: no exclusion list, or entity 1 excluded from
\* temperature and entity 2 from humidity.
MembershipOptionSets ==
    { (CONFIG_LIGHT_CONTROL :> FALSE),
      (CONFIG_EXCLUDED_TEMPERATURE_ENTITIES :> {1})
          @@ (CONFIG_EXCLUDED_HUMIDITY_ENTITIES :> {2}) }

InitMembership ==
    /\ is_running = TRUE
    /\ registry \in
           [Entities ->
               {[entity_id |-> e, area_id |-> ThisArea, disabled |-> d,
                 device_class |-> c, original_device_class |-> o] :
                    e \in Entities, d \in BOOLEAN, c \in ExplicitClasses,
                    o \in OriginalClasses}]
    /\ \A e \in Entities : registry[e].entity_id = e
    /\ hass_states \in [Entities -> {"1", STATE_UNAVAILABLE}]
    /\ options \in MembershipOptionSets
    /\ listening = FALSE
    /\ auto_entities = [t \in Trackers |-> NewTracker]
    /\ last = Last("init", NoTracker, 0)
    /\ events = 0
    /\ auto_area = AutoArea(ThisArea)
    /\ calc = NoCalc
    /\ old_contexts = <<>>

\* get_sensor_entities() of the Tracker of device class t; calc.states
\* holds the list of entity ids it returns.
GetSensorEntitiesCall(t) ==
    /\ calc.op = ""
    /\ calc' = [calc EXCEPT !.op = "get_sensor_entities", !.t = t,
                            !.states = get_sensor_entities(
                                           t, registry, hass_states, options)]
    /\ UNCHANGED <<is_running, registry, hass_states, options, listening,
                   auto_entities, last, events, auto_area, old_contexts>>

NextMembership == \E t \in TrackerClasses : GetSensorEntitiesCall(t)

SpecMembership == InitMembership /\ [][NextMembership]_vars

(***************************************************************************)
(* Properties.                                                             *)
(***************************************************************************)
Markers == {STATE_UNKNOWN, STATE_UNAVAILABLE}

\* The resolver's current output for Tracker t.
Resolved(t) == get_sensor_entities(t, registry, hass_states, options)

\* The entity ids on which Tracker t holds a state-change subscription.
Subscribed(t) ==
    auto_entities[t].on_remove_sub \cup auto_entities[t].unsub_state_changed.ids

\* The snapshot that holds the latest usable state of each of the ids.
LatestUsable(ids) ==
    [e \in Entities |->
        IF e \in SeqToSet(ids) /\ hass_states[e] \notin Markers
        THEN hass_states[e] ELSE NoState]

\* What a Tracker with aggregate agg publishes when nothing is cached.
Publishes(t, agg) == IF t = OCCUPANCY THEN presence_state(agg) ELSE agg

\* C1: when the running host delivers a state change of a subscribed member
\* of an added Tracker, the snapshot has the entity's new state afterwards
\* and the aggregate published in that pass is the strategy applied to the
\* members' latest usable states.
C1_ValueChangeReachesAggregate ==
    \A t \in Trackers :
        LET tr == auto_entities[t]
            e == last.e
            expected == _get_state(t, Values(LatestUsable(tr.entity_ids)), options)
        IN (/\ last.op = "state_changed"
            /\ is_running
            /\ tr.added
            /\ e \in Subscribed(t)
            /\ e \in SeqToSet(tr.entity_ids))
           => /\ tr.entity_states[e] = LatestUsable(tr.entity_ids)[e]
              /\ tr.aggregated_state = expected
              /\ tr.published = Publishes(t, expected)

\* C2: an added Tracker is subscribed to exactly the entities the resolver
\* gives now.
C2_SubscriptionsEqualResolved ==
    \A t \in Trackers :
        auto_entities[t].added => Subscribed(t) = SeqToSet(Resolved(t))

\* C3: the sweep of a create or remove event raises nothing and leaves
\* every Tracker of the area with the entity_ids the resolver gives.
C3_SweepResyncsEveryTracker ==
    (last.op = "registry" /\ last.action \in {"create", "remove"})
        => /\ ~last.raised
           /\ \A t \in Trackers :
                  SameIds(auto_entities[t].entity_ids, Resolved(t))

\* C4: every key of a snapshot is an entity the resolver gives now.
C4_SnapshotKeysAreMembers ==
    \A t \in Trackers :
        Keys(auto_entities[t].entity_states) \subseteq SeqToSet(Resolved(t))

\* C5: no snapshot entry has the state unknown or unavailable.
C5_NoMarkerInSnapshot ==
    \A t \in Trackers : \A e \in Entities :
        auto_entities[t].entity_states[e] \notin Markers

\* C5, witness: the listener of a Tracker has handled the change of a
\* member it had in its snapshot to a marker, and the entry is gone.
C5_Witness ==
    \E t \in Trackers :
        /\ last.op = "state_changed"
        /\ hass_states[last.e] \in Markers
        /\ auto_entities[t].unsub_state_changed.active
        /\ last.e \in auto_entities[t].unsub_state_changed.ids
        /\ auto_entities[t].entity_states[last.e] = NoState

\* C6: when a member of an added Tracker becomes unavailable or unknown, or
\* its state is removed, it is no key of the snapshot once the notification
\* is handled, and the aggregate is the one of the remaining entries
\* (unavailable when none remains).
C6_LostMemberLeavesSnapshot ==
    \A t \in Trackers :
        LET tr == auto_entities[t]
        IN (/\ last.op = "state_changed"
            /\ is_running
            /\ hass_states[last.e] \in Markers \cup {NoState}
            /\ tr.added
            /\ last.e \in Subscribed(t))
           => /\ last.e \notin Keys(tr.entity_states)
              /\ tr.aggregated_state
                     = _get_state(t, Values(tr.entity_states), options)
              /\ (Keys(tr.entity_states) = {}
                     => tr.aggregated_state = StrV(STATE_UNAVAILABLE))

\* The strings that the value kind of Tracker t does not parse.
Unparseable(t, v) ==
    /\ v \notin Markers \cup {NoState}
    /\ IF t = OCCUPANCY THEN ~is_bool(State(0, v)) ELSE ~is_float(State(0, v))

\* C7: when the listener of a Tracker handles a member's new state that its
\* value kind does not parse, the entity is no key of the snapshot
\* afterwards.
C7_UnparseableLeavesSnapshot ==
    \A t \in Trackers :
        LET tr == auto_entities[t]
        IN (/\ last.op = "state_changed"
            /\ Unparseable(t, hass_states[last.e])
            /\ tr.unsub_state_changed.active
            /\ last.e \in tr.unsub_state_changed.ids)
           => last.e \notin Keys(tr.entity_states)

\* No entry of the snapshot has a value the strategy of Tracker t uses.
NoUsableValue(t, snap) ==
    LET key == get_calculation(options, t)
        values == Values(snap)
    IN CASE key \in {CALCULATE_MAX, CALCULATE_MIN, CALCULATE_MEAN,
                     CALCULATE_MEDIAN} -> float_states(values) = <<>>
         [] key \in {CALCULATE_ALL, CALCULATE_ONE, CALCULATE_NONE} ->
                bool_states(values) = <<>>
         [] OTHER -> values = <<>>

\* C8: whenever no member of a Tracker that has computed its aggregate has
\* a usable value (the snapshot is empty, or none of its values is one the
\* strategy parses), the aggregate is the unavailable marker.
C8_NoUsableValueIsUnavailable ==
    \A t \in Trackers :
        LET tr == auto_entities[t]
        IN (tr.published # Unset /\ NoUsableValue(t, tr.entity_states))
           => tr.aggregated_state = StrV(STATE_UNAVAILABLE)

\* C9: right after async_update_tracked_entity_ids, on a Tracker the host
\* has added, has not added yet or has removed, a second call leaves
\* the Tracker (entity_ids, snapshot, subscription handle, aggregate and
\* published state) as the first left it, and neither unsubscribes nor
\* subscribes.
C9_ResyncIdempotent ==
    last.op = "resync" =>
        LET t == last.t
            tr == auto_entities[t]
        IN /\ async_update_tracked_entity_ids(t, tr, registry, hass_states,
                                              options) = tr
           /\ Resubscription(t, tr, registry, hass_states, options)
                  = [unsubscribed |-> FALSE, subscribed |-> FALSE]

\* C9, witness: a resync that found the membership changed, dropped the
\* subscription it had and subscribed anew, on a Tracker that the host had
\* removed by then.
C9_Witness ==
    /\ last.op = "resync"
    /\ last.unsubscribed
    /\ last.subscribed
    /\ auto_entities[last.t].unsub_state_changed.active
    /\ auto_entities[last.t].removed

\* C9, the other cases of the resync: on a Tracker that the host has added,
\* and on one it has not added yet.
C9_ResyncOfAdded ==
    /\ last.op = "resync"
    /\ last.unsubscribed
    /\ last.subscribed
    /\ auto_entities[last.t].added

C9_ResyncOfNotAdded ==
    /\ last.op = "resync"
    /\ last.subscribed
    /\ ~auto_entities[last.t].added
    /\ ~auto_entities[last.t].removed

\* C10: a sweep leaves untouched every Tracker whose newly resolved ids are,
\* as a set, its entity_ids: the Tracker is unchanged and the sweep does not
\* call it.
C10_UnchangedTrackerUntouched ==
    [][(last'.op = "registry" /\ ~last'.ignored)
          => \A t \in Trackers :
                 (SeqToSet(auto_entities[t].entity_ids)
                      = SeqToSet(get_sensor_entities(t, registry', hass_states',
                                                     options')))
                 => /\ auto_entities'[t] = auto_entities[t]
                    /\ last'.attempted # t]_vars

\* C10, witness: a sweep has run over a Tracker whose entity_ids are the
\* resolved ids in another order, and has not called it.
C10_Witness ==
    \E t \in Trackers :
        /\ last.op = "registry"
        /\ ~last.ignored
        /\ auto_entities[t].entity_ids # Resolved(t)
        /\ SeqToSet(auto_entities[t].entity_ids) = SeqToSet(Resolved(t))
        /\ last.attempted # t

\* The entity ids Tracker record tr is subscribed to.
SubscribedOf(tr) == tr.on_remove_sub \cup tr.unsub_state_changed.ids

\* C11: round trip.  From a Tracker that is consistent with the resolver,
\* when an entity of its device class is created in the area and the event
\* is swept, the entity is a member of the Tracker (in entity_ids and
\* subscribed); when the entity is then removed and the event is swept, the
\* snapshot and the subscribed ids are those before the creation; neither
\* sweep raises.
C11_AddRemoveRoundTrip ==
    \A t \in Trackers : \A e \in Entities :
        LET tr == auto_entities[t]
            created == RegistryEvent("create", NoArea)
            removed == RegistryEvent("remove", NoArea)
            reg1 == Append(registry, RegistryEntry(e, ThisArea))
            ae1 == SweptTrackers(created, auto_entities, reg1, hass_states,
                                 options)
            reg2 == SelectSeq(reg1, LAMBDA r : r.entity_id # e)
            ae2 == SweptTrackers(removed, ae1, reg2, hass_states, options)
        IN (/\ listening
            /\ auto_area.loaded
            /\ tr.added
            /\ ~InRegistry(e)
            /\ tr.entity_ids = Resolved(t)
            /\ SubscribedOf(tr) = SeqToSet(Resolved(t))
            /\ e \in SeqToSet(get_sensor_entities(t, reg1, hass_states,
                                                  options)))
           => /\ ~async_entity_registry_updated(created, auto_entities, reg1,
                                                hass_states, options).raised
              /\ e \in SeqToSet(ae1[t].entity_ids)
              /\ e \in SubscribedOf(ae1[t])
              /\ ~async_entity_registry_updated(removed, ae1, reg2,
                                                hass_states, options).raised
              /\ ae2[t].entity_states = tr.entity_states
              /\ SubscribedOf(ae2[t]) = SubscribedOf(tr)

\* C12: a registry update that moves an entity into the area of the entry
\* or out of it is swept: the handler's area_id filter drops neither.
C12_AreaUpdateSwept ==
    [][\A i \in 1..Len(registry) :
          (/\ listening
           /\ Len(registry') = Len(registry)
           /\ registry'[i].area_id # registry[i].area_id
           /\ auto_area.area_id \in {registry[i].area_id, registry'[i].area_id})
          => (last'.op = "registry" /\ ~last'.ignored)]_vars

\* The options name, for Tracker t, a strategy that CALCULATE does not have.
UnknownStrategy(t) == get_calculation_key(options, t) \notin CALCULATE

\* C13, as stated: with a strategy name that is not a known strategy, the
\* aggregate that _get_state computes is None whatever the snapshot holds.
C13_UnknownStrategyIsNone ==
    (calc.op = "_get_state" /\ UnknownStrategy(calc.t))
        => calc.result = NoneV

\* C13, amended: with a strategy name that is not a known strategy, the
\* aggregate that _get_state computes is None when the snapshot has an
\* entry and the unavailable marker when it has none; no default strategy
\* takes the place of the unknown one.
C13_UnknownStrategyIsNoneUnlessEmpty ==
    (calc.op = "_get_state" /\ UnknownStrategy(calc.t))
        => calc.result = IF calc.states = <<>> THEN StrV(STATE_UNAVAILABLE)
                         ELSE NoneV

\* C13, witness: _get_state has returned None for a snapshot of which the
\* default strategy of the Tracker would have made a value.
C13_Witness ==
    /\ calc.op = "_get_state"
    /\ UnknownStrategy(calc.t)
    /\ float_states(calc.states) # <<>>
    /\ bool_states(calc.states) # <<>>
    /\ calc.result = NoneV

\* C14: when the area id of the entry is missing or names no area of the
\* host, the AutoArea has reported its configuration issue and stays
\* inert: no Tracker is constructed or added and no lighting collaborator
\* is started.
C14_InvalidAreaStaysInert ==
    (auto_area.area_id = NoAreaId \/ ~auto_area.area)
        => /\ auto_area.issue
           /\ \A t \in Trackers :
                  ~auto_entities[t].constructed /\ ~auto_entities[t].added
           /\ auto_area.auto_lights = NoLights

\* C15: once async_unload_entry has run (cleanup, platforms unloaded), no
\* Tracker of the area holds a state-change subscription, that of
\* _async_start_tracking included, and a lighting collaborator that was
\* created is cleaned up.
C15_TeardownStopsEveryTracker ==
    auto_area.entry_state = NOT_LOADED
        => /\ \A t \in Trackers :
                  /\ auto_entities[t].on_remove_sub = {}
                  /\ ~auto_entities[t].unsub_state_changed.active
           /\ auto_area.auto_lights \in {NoLights, LightsCleanedUp}

\* C16: _async_stop on a Tracker without a subscription changes nothing;
\* it always leaves _async_unsub_state_changed None; a second call right
\* after the first changes nothing, and the two calls together call the
\* host's unsubscribe callback at most once.
C16_StopIdempotent ==
    \A t \in Trackers :
        LET tr == auto_entities[t]
            once == _async_stop(tr)
            twice == _async_stop(once)
        IN /\ (~tr.unsub_state_changed.active => once = tr)
           /\ once.unsub_state_changed = NoSubscription
           /\ twice = once
           /\ UnsubscribeCalls(tr) + UnsubscribeCalls(once) <= 1
           /\ UnsubscribeCalls(tr) = 1 <=> tr.unsub_state_changed.active

\* C16, witness: a resync has called _async_stop on a Tracker that held a
\* subscription, and the Tracker holds a new one that a next call ends.
C16_Witness ==
    /\ last.op = "resync"
    /\ last.unsubscribed
    /\ auto_entities[last.t].unsub_state_changed.active
    /\ UnsubscribeCalls(auto_entities[last.t]) = 1

\* C17: a notification that reaches _async_state_changed_listener after
\* the Tracker was stopped leaves the Tracker as it is: entity_ids,
\* snapshot, aggregate, published state and attributes.
C17_InFlightNotificationIgnored ==
    [][last'.op = "in_flight" => auto_entities' = auto_entities]_vars

\* C17, witness: a notification was delivered to a Tracker that a resync
\* had stopped, and its snapshot has no entry for the entity.
C17_Witness ==
    /\ last.op = "in_flight"
    /\ ~auto_entities[last.t].unsub_state_changed.active
    /\ auto_entities[last.t].entity_states[last.e] = NoState

\* The boolean-coercible values, and those of them that coerce to true.
Coercible(v) ==
    v \in {"on", "off", "yes", "no", "true", "false", "1", "0",
           NativeTrue, NativeFalse}
CoercesToTrue(v) == v \in {"on", "yes", "true", "1", NativeTrue}

\* C18: on a list with at least one boolean-coercible state, calculate_all
\* is true iff every coercible state coerces to true, calculate_one iff at
\* least one does, calculate_none iff none does; the other states do not
\* count.
C18_BooleanStrategies ==
    LET coercible == {i \in 1..Len(calc.states) :
                         Coercible(calc.states[i].state)}
        some == \E i \in coercible : CoercesToTrue(calc.states[i].state)
        every == \A i \in coercible : CoercesToTrue(calc.states[i].state)
    IN coercible # {}
       => /\ calc.op = CALCULATE_ALL => calc.result = BoolV(every)
          /\ calc.op = CALCULATE_ONE => calc.result = BoolV(some)
          /\ calc.op = CALCULATE_NONE => calc.result = BoolV(~some)

\* C18, witness: calculate_all is false for a list with a state that
\* coerces to true, one that coerces to false and one that is not
\* coercible.
C18_Witness ==
    /\ calc.op = CALCULATE_ALL
    /\ \E i, j, k \in 1..Len(calc.states) :
           /\ CoercesToTrue(calc.states[i].state)
           /\ calc.states[j].state = "off"
           /\ ~Coercible(calc.states[k].state)
    /\ calc.result = BoolV(FALSE)

\* The float-parseable states of the list handed to the calculation, as
\* indices, and their values.
Parseable == {i \in 1..Len(calc.states) :
                 calc.states[i].state \in DOMAIN FloatTable}
ParsedValue(i) == FloatTable[calc.states[i].state]

RECURSIVE ParsedSum(_)
ParsedSum(S) ==
    IF S = {} THEN 0
    ELSE LET i == CHOOSE j \in S : TRUE
         IN ParsedValue(i) + ParsedSum(S \ {i})

\* The value of rank r (from 1) among the parsed values, in ascending order.
Ranked(r) ==
    CHOOSE v \in {ParsedValue(i) : i \in Parseable} :
        /\ Cardinality({i \in Parseable : ParsedValue(i) < v}) < r
        /\ Cardinality({i \in Parseable : ParsedValue(i) <= v}) >= r

\* C20: on a list with at least one float-parseable state, calculate_max,
\* calculate_min, calculate_mean and calculate_median are the maximum, the
\* minimum, the arithmetic mean and the median of the parsed values of the
\* parseable states; the other states do not count.
C20_NumericStrategies ==
    LET k == Cardinality(Parseable)
    IN Parseable # {}
       => /\ calc.op = CALCULATE_MAX => calc.result = NumV(Ranked(k), 1)
          /\ calc.op = CALCULATE_MIN => calc.result = NumV(Ranked(1), 1)
          /\ calc.op = CALCULATE_MEAN
                 => calc.result = NumV(ParsedSum(Parseable), k)
          /\ calc.op = CALCULATE_MEDIAN
                 => calc.result =
                        IF k % 2 = 1 THEN NumV(Ranked((k + 1) \div 2), 1)
                        ELSE NumV(Ranked(k \div 2) + Ranked(k \div 2 + 1), 2)

\* C20, witness: calculate_max of 40, 55 and a state that float() does not
\* parse is 55.
C20_Witness ==
    /\ calc.op = CALCULATE_MAX
    /\ {calc.states[i].state : i \in 1..Len(calc.states)} = {"40", "55", "abc"}
    /\ calc.result = NumV(55, 1)

\* C19: once the presence Tracker has computed and written its state, the
\* attributes num_true and num_false that it has published are the numbers
\* of snapshot entries that coerce to true and to false, and with strategy
\* all it has published off whenever num_false is not 0.
C19_PresenceCounts ==
    LET tr == auto_entities[OCCUPANCY]
        snap == tr.entity_states
        trues == {e \in Keys(snap) : CoercesToTrue(snap[e])}
        falses == {e \in Keys(snap) :
                      Coercible(snap[e]) /\ ~CoercesToTrue(snap[e])}
    IN tr.published # Unset
       => /\ tr.attributes.extra.set
          /\ tr.attributes.extra.num_true = Cardinality(trues)
          /\ tr.attributes.extra.num_false = Cardinality(falses)
          /\ (get_calculation(options, OCCUPANCY) = CALCULATE_ALL
                  /\ falses # {})
                 => tr.published = StrV("off")

\* The places of the list whose state calculate_last keeps.
Remaining == {i \in 1..Len(calc.states) :
                 calc.states[i].state
                     \notin {NativeNone, STATE_UNKNOWN, STATE_UNAVAILABLE}}

\* The remaining places with the greatest last_updated.
Latest == {i \in Remaining :
              \A j \in Remaining :
                  calc.states[j].last_updated <= calc.states[i].last_updated}

\* C21: calculate_last ignores the states that are None, 'unknown' or
\* 'unavailable' and returns the state of the remaining one with the
\* greatest last_updated; of several with that timestamp it returns the one
\* that comes first in the list ('unknown' when none remains).
C21_LastIsLatestFirstOfTies ==
    calc.op = CALCULATE_LAST
        => IF Remaining = {}
           THEN calc.result = StrV(STATE_UNKNOWN)
           ELSE \E i \in Latest :
                   /\ \A j \in Latest : i <= j
                   /\ calc.result = StateValue(calc.states[i])

\* calculate_last has run on a list that holds an ignored state and two
\* remaining states of different values that share the greatest timestamp.
C21_Witness ==
    /\ calc.op = CALCULATE_LAST
    /\ Remaining # 1..Len(calc.states)
    /\ \E i, j \in Latest : calc.states[i].state # calc.states[j].state
    /\ calc.result.kind = "str"
    /\ calc.result.s # STATE_UNKNOWN

\* C22: what a Tracker has published is computed from its current snapshot
\* and its current aggregate: once it has written its state, the published
\* state is the one of _aggregated_state, the published 'entities' map is
\* the snapshot, and the published counts are the current _extra_attributes.
C22_PublishedIsCurrent ==
    \A t \in Trackers :
        LET tr == auto_entities[t]
        IN tr.attributes.cached
           => /\ tr.published = Publishes(t, tr.aggregated_state)
              /\ tr.attributes.entities = tr.entity_states
              /\ tr.attributes.extra = tr.extra_attributes

\* The device classes a Tracker of device class t takes for its own.
ClassesOf(t) ==
    IF t = OCCUPANCY THEN PRESENCE_BINARY_SENSOR_DEVICE_CLASSES ELSE {t}

\* The resolved device class of a registry entry: the one the user has set
\* when there is one, else the original one.
ResolvedClass(entity) ==
    IF entity.device_class # NoClass THEN entity.device_class
    ELSE entity.original_device_class

\* The entity ids get_sensor_entities returns for device class t.
MembersOf(t) ==
    SeqToSet(get_sensor_entities(t, registry, hass_states, options))

\* C23: get_sensor_entities returns no entity whose user-set device class
\* differs from the Tracker's (whatever its original device class) and no
\* entity of the Tracker's exclusion list, and no entity is a member of two
\* of the illuminance, temperature and humidity Trackers.
C23_MembershipByResolvedClass ==
    calc.op = "get_sensor_entities"
        => /\ \A i \in 1..Len(calc.states) :
                  /\ ResolvedClass(registry[calc.states[i]])
                         \in ClassesOf(calc.t)
                  /\ calc.states[i] \notin _excluded_entities(calc.t, options)
           /\ \A t1, t2 \in {ILLUMINANCE, TEMPERATURE, HUMIDITY} :
                  t1 # t2 => MembersOf(t1) \cap MembersOf(t2) = {}

\* The step calls _reset_tracked_state on Tracker t: _update_at_start when
\* the Tracker is added to the running host, a resync whose resolved ids
\* differ from entity_ids, or _async_state_changed_listener told that the
\* state of a subscribed entity was removed.
Reseeds(t) ==
    \/ /\ last'.op = "added"
       /\ last'.t = t
       /\ is_running
    \/ /\ last'.op = "resync"
       /\ last'.t = t
       /\ ~SameIds(auto_entities[t].entity_ids, Resolved(t))
    \/ /\ last'.op = "state_changed"
       /\ hass_states'[last'.e] = NoState
       /\ auto_entities[t].unsub_state_changed.active
       /\ last'.e \in auto_entities[t].unsub_state_changed.ids

\* C24: right after a step that reseeds a Tracker, its entity_ids are the
\* resolver's output and its snapshot holds exactly its members whose
\* state in the host exists and is neither 'unknown' nor 'unavailable',
\* each with that state; nothing else of the earlier snapshot is left.
C24_ReseedIsFromHostState ==
    [][\A t \in Trackers :
          Reseeds(t)
              => /\ auto_entities'[t].entity_ids = Resolved(t)'
                 /\ auto_entities'[t].entity_states
                        = LatestUsable(auto_entities[t].entity_ids)']_vars

\* A resync has reseeded a Tracker that keeps a member: the snapshot has
\* no entry for one of its members, whose state in the host is 'unknown'
\* or missing, although the entity was in the snapshot published before.
ResyncReseeded(t) ==
    LET tr == auto_entities[t]
    IN /\ last.op = "resync"
       /\ last.t = t
       /\ tr.entity_ids # <<>>
       /\ tr.entity_ids = Resolved(t)
       /\ \E e \in SeqToSet(tr.entity_ids) :
              /\ hass_states[e] \in {STATE_UNKNOWN, NoState}
              /\ tr.entity_states[e] = NoState
              /\ tr.attributes.entities[e] # NoState

\* C24, witness: such a resync on a Tracker that the host has added.
C24_Witness ==
    \E t \in Trackers : ResyncReseeded(t) /\ auto_entities[t].added

\* C24, the other cases of the resync: such a resync on a Tracker that the
\* host has removed, and the resync of a Tracker that the host has not
\* added yet, which seeds the snapshot with the usable states of its
\* members and leaves out the member whose state is 'unknown'.
C24_ReseedOfRemoved ==
    \E t \in Trackers : ResyncReseeded(t) /\ auto_entities[t].removed

C24_ReseedOfNotAdded ==
    \E t \in Trackers :
        LET tr == auto_entities[t]
        IN /\ last.op = "resync"
           /\ last.t = t
           /\ ~tr.added
           /\ ~tr.removed
           /\ tr.entity_ids # <<>>
           /\ tr.entity_ids = Resolved(t)
           /\ \E e \in SeqToSet(tr.entity_ids) :
                  /\ hass_states[e] = STATE_UNKNOWN
                  /\ tr.entity_states[e] = NoState
           /\ \E e \in SeqToSet(tr.entity_ids) : tr.entity_states[e] # NoState

\* C25: teardown is complete: while the entry is not loaded, no registry
\* listener of its Area Context is registered and no registry event runs
\* the sweep on the Trackers of that context; the listener of a context
\* that a later setup has replaced is never registered, so at most one
\* listener is.
C25_NoListenerAfterUnload ==
    /\ auto_area.entry_state = NOT_LOADED
           => /\ Listeners = 0
              /\ last.op # "registry"
    /\ \A i \in 1..Len(old_contexts) : ~old_contexts[i].listening
    /\ Listeners <= 1

\* Tracker record tr after _async_state_changed_listener has handled the
\* notification that entity e has the new state v (NoState: its state was
\* removed), the host's states being those after the change.
Notified(t, tr, e, v) ==
    _async_state_changed_listener(t, tr, State(e, v), registry,
                                  [hass_states EXCEPT ![e] = v], options)

\* C26: whatever state-change notification of an entity e the listener of
\* a Tracker handles, the removal of e's state included, the Tracker's
\* entity_ids, its subscription and the snapshot entries of the entities
\* other than e are afterwards as they were.
C26_ListenerFrame ==
    \A t \in Trackers : \A e \in Entities :
        \A v \in (StateValues \cup {NoState}) \ {hass_states[e]} :
            LET tr == auto_entities[t]
                tr2 == Notified(t, tr, e, v)
            IN (/\ tr.unsub_state_changed.active
                /\ e \in tr.unsub_state_changed.ids)
               => /\ tr2.entity_ids = tr.entity_ids
                  /\ tr2.unsub_state_changed = tr.unsub_state_changed
                  /\ tr2.on_remove_sub = tr.on_remove_sub
                  /\ \A o \in Entities \ {e} :
                         tr2.entity_states[o] = tr.entity_states[o]

====
